---- MODULE Spec2Model ----
(***************************************************************************)
(* Model of kalilistic/NoSoliciting.Reviewer: the tagged-envelope text     *)
(* decoder (get_text, get_int) of reviewer.py and the review loop built    *)
(* on it.  Python bytes are sequences of integers 0..255, Python str is a  *)
(* sequence of Unicode code points, a BytesIO cursor is the pair           *)
(* (input_data, cursor) with cursor the 0-based read position.             *)
(***************************************************************************)
EXTENDS Integers, Sequences, FiniteSets, TLC

\* ------------------------------------------------------------------ bounds
\* longest buffer handed to get_text
MaxLen == 5
\* most bytes that follow the marker byte in a direct get_int call
MaxExtra == 4
\* most reports in the table when a review starts
MaxReports == 2
\* most items one scan response carries
PageSize == 1
\* most scans one review run issues before the model stops following it
MaxBatches == 2
\* longest stored field process_item is called on by itself
MaxText == 4
\* longest buffer of two interleaved get_text calls (the examples apart)
MaxPairLen == 2
\* most records in the table when the deduper starts
MaxRecords == 3
\* most entries of the import directory, and most lines of one file
MaxFiles == 2
MaxItems == 2

\* ------------------------------------------------------- program constants
START == 2
END == 3

\* byte values buffers are drawn from: NUL (marker of -1), 0x01 (marker of 0),
\* START (also marker of 1), END (also marker of 2), 'H', 0xF7 (mask 8: one
\* extra byte, the low one), 0xFF (mask 0, and never valid UTF-8)
Bytes == {0, 1, 2, 3, 72, 247, 255}
\* byte values that follow the marker in a direct get_int call
DataBytes == {1, 128, 255}

Min(a, b) == IF a < b THEN a ELSE b

RECURSIVE Pow(_, _)
Pow(b, e) == IF e = 0 THEN 1 ELSE b * Pow(b, e - 1)

\* sequences over S of length 0..n
SeqsUpTo(S, n) == UNION {[1..k -> S] : k \in 0..n}

\* 'H','i',START,kind 0,marker 1,END,'!'
HiExample == <<72, 105, 2, 0, 1, 3, 33>>
\* a block whose one-byte body is 0x02, then a literal
BodyStartExample == <<2, 0, 2, 2, 3, 72>>
\* literal 'e-acute' (two UTF-8 bytes) around an empty block
Utf8Example == <<195, 2, 0, 1, 3, 169>>
Examples == {HiExample, BodyStartExample, Utf8Example}

Inputs == SeqsUpTo(Bytes, MaxLen) \cup Examples

IntInputs == {<<m>> \o e : m \in 0..255, e \in SeqsUpTo(DataBytes, MaxExtra)}

\* ---------------------------------------------------------------- state
VARIABLES
    input_data,   \* get_text: the buffer (get_int: the cursor's buffer)
    cursor,       \* BytesIO position, 0..Len(input_data)
    result,       \* get_text: the literal accumulator (bytearray)
    length,       \* get_text: the block length returned by get_int
    marker,       \* get_int: the marker byte, then the presence mask
    i,            \* get_int: the loop variable of range(4)
    int_result,   \* get_int: the 4-byte bytearray
    int_value,    \* get_int: the value returned
    ret_pc,       \* where get_int returns to
    pc,           \* position in the code
    outcome,      \* "running", "returned" or the exception raised
    text,         \* get_text: the str returned
    table,        \* the reports stored in DynamoDB, in scan order
    auto_accept,  \* review_reports: the --auto-accept flag
    last_evaluated_key,  \* review_reports: 0 is None, else a report id
    items,        \* review_reports: the items of the batch not yet visited
    batch_number, \* review_reports: scans issued
    rpc,          \* review_reports: position in the code
    uncaught,     \* the exception that ended review_reports, or "none"
    csv_file,     \* the rows written and flushed to the output file
    events,       \* the writes and delete requests issued, in order
    action,       \* review_reports: the answer of prompt_action, or "none"
    arg_item,     \* process_item: its argument, when called on its own
    returned,     \* process_item: what it returned or raised
    calls,        \* the locals of each of two interleaved get_text calls
    records,      \* deduper: the records fetched
    d_index,      \* deduper: how many entries the running loop has visited
    content_hash_map,  \* deduper: hash -> list of record ids
    duplicates,   \* deduper: the ids found to be duplicates
    delete_requests,   \* deduper: the ids delete_item was called with
    remaining_records, \* deduper: the number printed at the end, or -1
    dpc,          \* deduper: position in the code
    directory,    \* importer: the files in the directory, name -> lines
    json_files,   \* importer: the files still to process, the current first
    import_items, \* importer: the items of the open file not yet put
    all_successful,    \* importer: the flag of the current file
    put_log,      \* importer: the put_item calls made and how each ended
    ipc           \* importer: position in the code

decode_vars == <<input_data, cursor, result, length, marker, i, int_result,
                 int_value, ret_pc, pc, outcome, text>>

\* the locals of review_reports and its output file
review_locals == <<auto_accept, items, batch_number, rpc, uncaught, csv_file,
                   events, action>>

review_vars == <<table, last_evaluated_key, review_locals>>

item_vars == <<arg_item, returned>>

dedupe_vars == <<records, d_index, content_hash_map, duplicates,
                 delete_requests, remaining_records, dpc>>

import_vars == <<directory, json_files, import_items, all_successful,
                 put_log, ipc>>

\* what neither a decode call nor a review touches
other_vars == <<item_vars, calls, dedupe_vars, import_vars>>

vars == <<decode_vars, review_vars, other_vars>>

\* the local state of one decode call, as a record
Frame ==
    [input_data |-> input_data, cursor |-> cursor, result |-> result,
     length |-> length, marker |-> marker, i |-> i,
     int_result |-> int_result, int_value |-> int_value, ret_pc |-> ret_pc,
     pc |-> pc, outcome |-> outcome, text |-> text]

Install(f) ==
    /\ input_data' = f.input_data
    /\ cursor' = f.cursor
    /\ result' = f.result
    /\ length' = f.length
    /\ marker' = f.marker
    /\ i' = f.i
    /\ int_result' = f.int_result
    /\ int_value' = f.int_value
    /\ ret_pc' = f.ret_pc
    /\ pc' = f.pc
    /\ outcome' = f.outcome
    /\ text' = f.text

\* ----------------------------------------------------- BytesIO and raise
\* bytes left between the position and the end of the buffer
Remaining(f) == Len(f.input_data) - f.cursor

\* A Python int is unbounded and get_int returns values up to 2^32 - 1, so an
\* int is kept as two limbs: its value is hi * 65536 + lo with lo in 0..65535
\* (-1 is hi = -1, lo = 65535).
PyInt(v) == [hi |-> v \div 65536, lo |-> v % 65536]
IsNegative(n) == n.hi < 0
\* min(n, k) for a non-negative n and a k below 65536
MinWith(n, k) == IF n.hi > 0 THEN k ELSE Min(n.lo, k)

\* BytesIO.read(n): a negative n reads to the end, otherwise at most n bytes
ReadCountUnclamped(f, n) == IF n.hi > 0 THEN 65536 ELSE n.hi * 65536 + n.lo
ReadCount(f, n) ==
    IF IsNegative(n) THEN Remaining(f) ELSE MinWith(n, Remaining(f))

\* the byte cursor.read(1)[0] yields when one is left
Peek(f) == f.input_data[f.cursor + 1]

Raise(f, exc) == [f EXCEPT !.pc = "done", !.outcome = exc]

\* ------------------------------------------------------------ UTF-8
\* bytes.decode("utf-8") in strict mode, from 1-based position p
RECURSIVE utf8_from(_, _)
utf8_from(b, p) ==
    IF p > Len(b) THEN [ok |-> TRUE, text |-> <<>>]
    ELSE
      LET c == b[p]
          Cont(k) == p + k <= Len(b) /\ b[p + k] \in 128..191
          Low(k) == b[p + k] - 128
          Then(cp, n) ==
              LET rest == utf8_from(b, p + n)
              IN  IF rest.ok THEN [ok |-> TRUE, text |-> <<cp>> \o rest.text]
                  ELSE rest
          Bad == [ok |-> FALSE, text |-> <<>>]
      IN  IF c < 128 THEN Then(c, 1)
          ELSE IF c \in 194..223
            THEN IF Cont(1) THEN Then((c - 192) * 64 + Low(1), 2) ELSE Bad
          ELSE IF c \in 224..239
            THEN IF /\ Cont(1) /\ Cont(2)
                    /\ (c = 224 => b[p + 1] >= 160)
                    /\ (c = 237 => b[p + 1] <= 159)
                 THEN Then((c - 224) * 4096 + Low(1) * 64 + Low(2), 3)
                 ELSE Bad
          ELSE IF c \in 240..244
            THEN IF /\ Cont(1) /\ Cont(2) /\ Cont(3)
                    /\ (c = 240 => b[p + 1] >= 144)
                    /\ (c = 244 => b[p + 1] <= 143)
                 THEN Then((c - 240) * 262144 + Low(1) * 4096
                           + Low(2) * 64 + Low(3), 4)
                 ELSE Bad
          ELSE Bad

utf8_decode(b) == utf8_from(b, 1)

\* ------------------------------------------------------------ get_int
\* int.from_bytes(r, byteorder="little") of a 4-byte array
from_bytes_little(r) == [hi |-> r[3] + r[4] * 256, lo |-> r[1] + r[2] * 256]

\* marker & (1 << k)
BitSet(m, k) == (m \div Pow(2, k)) % 2 = 1

get_int_return(f, v) ==
    [f EXCEPT !.int_value = v, !.pc = f.ret_pc,
              !.outcome = IF f.ret_pc = "done" THEN "returned" ELSE @]

\* marker = cursor.read(1)[0]; the small branch; the mask and the bytearray
get_int_marker_NoMinus(f) ==
    IF Remaining(f) = 0 THEN Raise(f, "IndexError")
    ELSE LET m == Peek(f)
             g == [f EXCEPT !.cursor = @ + 1]
         IN  IF m < 208 THEN get_int_return([g EXCEPT !.marker = m], PyInt(m))
             ELSE [g EXCEPT !.marker = (m + 1) % 16,
                            !.int_result = <<0, 0, 0, 0>>,
                            !.i = 0, !.pc = "for"]
get_int_marker_MaskNoInc(f) ==
    IF Remaining(f) = 0 THEN Raise(f, "IndexError")
    ELSE LET m == Peek(f)
             g == [f EXCEPT !.cursor = @ + 1]
         IN  IF m < 208 THEN get_int_return([g EXCEPT !.marker = m], PyInt(m - 1))
             ELSE [g EXCEPT !.marker = m % 16,
                            !.int_result = <<0, 0, 0, 0>>,
                            !.i = 0, !.pc = "for"]
get_int_marker(f) ==
    IF Remaining(f) = 0 THEN Raise(f, "IndexError")
    ELSE LET m == Peek(f)
             g == [f EXCEPT !.cursor = @ + 1]
         IN  IF m < 208 THEN get_int_return([g EXCEPT !.marker = m], PyInt(m - 1))
             ELSE [g EXCEPT !.marker = (m + 1) % 16,
                            !.int_result = <<0, 0, 0, 0>>,
                            !.i = 0, !.pc = "for"]

\* one iteration of "for i in range(4)", or the return after the last one
get_int_for_SameOffset(f) ==
    IF f.i = 4 THEN get_int_return(f, from_bytes_little(f.int_result))
    ELSE IF BitSet(f.marker, f.i)
      THEN IF Remaining(f) = 0 THEN Raise(f, "IndexError")
           ELSE [f EXCEPT !.int_result[f.i + 1] = Peek(f),
                          !.cursor = @ + 1, !.i = @ + 1]
      ELSE [f EXCEPT !.i = @ + 1]
get_int_for(f) ==
    IF f.i = 4 THEN get_int_return(f, from_bytes_little(f.int_result))
    ELSE IF BitSet(f.marker, f.i)
      THEN IF Remaining(f) = 0 THEN Raise(f, "IndexError")
           ELSE [f EXCEPT !.int_result[(3 - f.i) + 1] = Peek(f),
                          !.cursor = @ + 1, !.i = @ + 1]
      ELSE [f EXCEPT !.i = @ + 1]

\* ------------------------------------------------------------ get_text
\* the while test, byte = cursor.read(1)[0], the START test, result.append
get_text_while_DropEnd(f) ==
    IF f.cursor < Len(f.input_data)
    THEN LET byte == Peek(f)
         IN  IF byte = START THEN [f EXCEPT !.cursor = @ + 1, !.pc = "kind"]
             ELSE IF byte = END THEN [f EXCEPT !.cursor = @ + 1]
             ELSE [f EXCEPT !.cursor = @ + 1, !.result = Append(@, byte)]
    ELSE [f EXCEPT !.pc = "decode"]
get_text_while(f) ==
    IF f.cursor < Len(f.input_data)
    THEN LET byte == Peek(f)
         IN  IF byte = START THEN [f EXCEPT !.cursor = @ + 1, !.pc = "kind"]
             ELSE [f EXCEPT !.cursor = @ + 1, !.result = Append(@, byte)]
    ELSE [f EXCEPT !.pc = "decode"]

\* cursor.read(1)  # Skip kind; then the call of get_int
get_text_kind(f) ==
    [f EXCEPT !.cursor = @ + ReadCount(f, PyInt(1)), !.pc = "marker",
              !.ret_pc = "skip"]

\* length = get_int(cursor); cursor.read(length)
get_text_skip_NoSkip(f) ==
    [f EXCEPT !.length = f.int_value, !.pc = "end"]
get_text_skip_Seek(f) ==
    [f EXCEPT !.length = f.int_value,
              !.cursor = @ + ReadCountUnclamped(f, f.int_value),
              !.pc = "end"]
get_text_skip(f) ==
    [f EXCEPT !.length = f.int_value,
              !.cursor = @ + ReadCount(f, f.int_value),
              !.pc = "end"]

\* end_byte = cursor.read(1)[0]; assert end_byte == END; continue
get_text_end_EofIsFormat(f) ==
    IF Remaining(f) <= 0 THEN Raise(f, "AssertionError")
    ELSE IF Peek(f) # END THEN Raise(f, "AssertionError")
    ELSE [f EXCEPT !.cursor = @ + 1, !.pc = "while"]
get_text_end_NoAssert(f) ==
    IF Remaining(f) <= 0 THEN Raise(f, "IndexError")
    ELSE [f EXCEPT !.cursor = @ + 1, !.pc = "while"]
get_text_end(f) ==
    IF Remaining(f) <= 0 THEN Raise(f, "IndexError")
    ELSE IF Peek(f) # END
      THEN Raise([f EXCEPT !.cursor = @ + 1], "AssertionError")
    ELSE [f EXCEPT !.cursor = @ + 1, !.pc = "while"]

\* return result.decode("utf-8")
get_text_return(f) ==
    LET d == utf8_decode(f.result)
    IN  IF d.ok THEN [f EXCEPT !.pc = "done", !.outcome = "returned",
                               !.text = d.text]
        ELSE Raise(f, "UnicodeDecodeError")

\* the locals of a call that has not run yet
NewFrame(buf, start_pc, return_pc) ==
    [input_data |-> buf, cursor |-> 0, result |-> <<>>,
     length |-> PyInt(0), marker |-> 0, i |-> 0,
     int_result |-> <<0, 0, 0, 0>>, int_value |-> PyInt(0),
     ret_pc |-> return_pc, pc |-> start_pc, outcome |-> "running",
     text |-> <<>>]

get_text_call(buf) == NewFrame(buf, "while", "skip")
get_int_call(buf) == NewFrame(buf, "marker", "done")

\* the next step of a call, by its position
Step(f) ==
    CASE f.pc = "while" -> get_text_while(f)
      [] f.pc = "kind" -> get_text_kind(f)
      [] f.pc = "marker" -> get_int_marker(f)
      [] f.pc = "for" -> get_int_for(f)
      [] f.pc = "skip" -> get_text_skip(f)
      [] f.pc = "end" -> get_text_end(f)
      [] f.pc = "decode" -> get_text_return(f)
      [] OTHER -> f

\* ------------------------------------------------------------ actions
While ==
    pc = "while" /\ Install(get_text_while(Frame)) /\ UNCHANGED <<review_vars, other_vars>>
Kind ==
    pc = "kind" /\ Install(get_text_kind(Frame)) /\ UNCHANGED <<review_vars, other_vars>>
Marker ==
    pc = "marker" /\ Install(get_int_marker(Frame)) /\ UNCHANGED <<review_vars, other_vars>>
For ==
    pc = "for" /\ Install(get_int_for(Frame)) /\ UNCHANGED <<review_vars, other_vars>>
Skip ==
    pc = "skip" /\ Install(get_text_skip(Frame)) /\ UNCHANGED <<review_vars, other_vars>>
End ==
    pc = "end" /\ Install(get_text_end(Frame)) /\ UNCHANGED <<review_vars, other_vars>>
Return ==
    pc = "decode" /\ Install(get_text_return(Frame))
    /\ UNCHANGED <<review_vars, other_vars>>

\* the variables hold the locals of call f
Start(f) ==
    /\ input_data = f.input_data
    /\ cursor = f.cursor
    /\ result = f.result
    /\ length = f.length
    /\ marker = f.marker
    /\ i = f.i
    /\ int_result = f.int_result
    /\ int_value = f.int_value
    /\ ret_pc = f.ret_pc
    /\ pc = f.pc
    /\ outcome = f.outcome
    /\ text = f.text

\* no review is running
ReviewIdle ==
    /\ table = <<>>
    /\ auto_accept = FALSE
    /\ last_evaluated_key = 0
    /\ items = <<>>
    /\ batch_number = 0
    /\ rpc = "idle"
    /\ uncaught = "none"
    /\ csv_file = <<>>
    /\ events = <<>>
    /\ action = "none"

\* process_item is not being called on its own
ItemIdle == arg_item = <<>> /\ returned = [status |-> "idle"]

\* no pair of decode calls is running
PairIdle == calls = <<>>

\* the deduper is not running
DedupeIdle ==
    /\ records = <<>>
    /\ d_index = 0
    /\ content_hash_map = <<>>
    /\ duplicates = <<>>
    /\ delete_requests = <<>>
    /\ remaining_records = -1
    /\ dpc = "idle"

\* the importer is not running
ImportIdle ==
    /\ directory = <<>>
    /\ json_files = <<>>
    /\ import_items = <<>>
    /\ all_successful = TRUE
    /\ put_log = <<>>
    /\ ipc = "idle"

\* one get_text call on any bounded buffer
Init ==
    /\ \E buf \in Inputs : Start(get_text_call(buf))
    /\ ReviewIdle /\ ItemIdle /\ PairIdle /\ DedupeIdle /\ ImportIdle

Next == While \/ Kind \/ Marker \/ For \/ Skip \/ End \/ Return

Spec == Init /\ [][Next]_vars

\* one get_int call on a cursor at the start of any bounded buffer
InitInt ==
    /\ \E buf \in IntInputs : Start(get_int_call(buf))
    /\ ReviewIdle /\ ItemIdle /\ PairIdle /\ DedupeIdle /\ ImportIdle

NextInt == Marker \/ For

SpecInt == InitInt /\ [][NextInt]_vars

\* ======================================================================
\* process_item and review_reports
\* ======================================================================
\* a whole call: the steps of get_text on buf, run to the return or raise
RECURSIVE Run(_)
Run(f) == IF f.pc = "done" THEN f ELSE Run(Step(f))

get_text(buf) == Run(get_text_call(buf))

\* ---- str.replace and str.strip on sequences of code points
RECURSIVE str_replace(_, _, _)
str_replace(t, old, new) ==
    IF Len(t) < Len(old) THEN t
    ELSE IF SubSeq(t, 1, Len(old)) = old
      THEN new \o str_replace(SubSeq(t, Len(old) + 1, Len(t)), old, new)
    ELSE <<t[1]>> \o str_replace(Tail(t), old, new)

\* the characters str.isspace() accepts
WhiteSpace ==
    {9, 10, 11, 12, 13, 28, 29, 30, 31, 32, 133, 160, 5760, 8232, 8233,
     8239, 8287, 12288} \cup (8192..8202)

RECURSIVE lstrip(_)
lstrip(t) ==
    IF t # <<>> /\ t[1] \in WhiteSpace THEN lstrip(Tail(t)) ELSE t

RECURSIVE rstrip(_)
rstrip(t) ==
    IF t # <<>> /\ t[Len(t)] \in WhiteSpace
    THEN rstrip(SubSeq(t, 1, Len(t) - 1)) ELSE t

strip(t) == rstrip(lstrip(t))

\* constants.REPLACEMENTS: an ordered table of (needle, replacement); the
\* entry shown maps the private-use character U+E071 to "A"
REPLACEMENTS == <<[needle |-> <<57457>>, replacement |-> <<65>>]>>

RECURSIVE replace_from(_, _)
replace_from(t, k) ==
    IF k > Len(REPLACEMENTS) THEN t
    ELSE replace_from(str_replace(t, REPLACEMENTS[k].needle,
                                  REPLACEMENTS[k].replacement), k + 1)

do_replacements(t) == replace_from(t, 1)

\* ---- base64.b64decode without validation, for data without '=' padding
\* (no field of the model holds one): characters outside the alphabet are
\* dropped, and the rest must come in groups of four
IsB64Char(c) ==
    c \in (65..90) \cup (97..122) \cup (48..57) \cup {43, 47}

B64Value(c) ==
    IF c \in 65..90 THEN c - 65
    ELSE IF c \in 97..122 THEN c - 71
    ELSE IF c \in 48..57 THEN c + 4
    ELSE IF c = 43 THEN 62 ELSE 63

RECURSIVE b64_groups(_)
b64_groups(cs) ==
    IF cs = <<>> THEN <<>>
    ELSE LET n == B64Value(cs[1]) * 262144 + B64Value(cs[2]) * 4096
                  + B64Value(cs[3]) * 64 + B64Value(cs[4])
         IN  <<n \div 65536, (n \div 256) % 256, n % 256>>
             \o b64_groups(SubSeq(cs, 5, Len(cs)))

b64decode(data) == b64_groups(SelectSeq(data, IsB64Char))

is_base64(data) == Len(SelectSeq(data, IsB64Char)) % 4 = 0

decode_field(field) == IF is_base64(field) THEN b64decode(field) ELSE field

\* ---- the stored fields the model draws reports from
\* an attribute the item does not have
Absent == <<-1>>
\* "H": one base64 character, so not base64 and taken raw
FieldPlain == <<72>>
\* "SGVo": base64 of "Heh"
FieldBase64 == <<83, 71, 86, 111>>
\* U+E071 "H" CR LF "H" LF, taken raw
FieldLines == <<238, 129, 177, 72, 13, 10, 72, 10>>
\* START, kind 'H' and nothing more: the length is missing
FieldTruncated == <<2, 72>>
\* START, kind, length 0, then 'H' where END belongs
FieldNoEnd == <<2, 0, 1, 72>>
\* 0xFF is never valid UTF-8
FieldBadUtf8 == <<255, 72>>

ReportKinds ==
    {[sender |-> FieldPlain, content |-> FieldBase64],
     [sender |-> FieldPlain, content |-> FieldLines],
     [sender |-> FieldPlain, content |-> FieldTruncated],
     [sender |-> FieldPlain, content |-> FieldNoEnd],
     [sender |-> FieldPlain, content |-> FieldBadUtf8],
     [sender |-> FieldTruncated, content |-> FieldPlain],
     [sender |-> Absent, content |-> FieldPlain]}

\* the k-th report of a table: ids follow the scan order
Report(k, kind) ==
    [id |-> k, sender |-> kind.sender, content |-> kind.content,
     type |-> 1, reason |-> "RMT_C", suggested_classification |-> "NORMAL"]

Tables ==
    UNION {{[k \in 1..n |-> Report(k, ks[k])] : ks \in [1..n -> ReportKinds]} :
              n \in 0..MaxReports}

\* the classifications prompt_reclassify is answered with
ReclassifyChoices == {"FC", "TRADE"}

DecodeFailures == {"IndexError", "AssertionError", "UnicodeDecodeError"}

\* process_item without the replace of "\r\n"
process_item_NoPair(item) ==
    IF item.sender = Absent \/ item.content = Absent
    THEN [status |-> "none"]
    ELSE
      LET s == get_text(decode_field(item.sender))
          c == get_text(decode_field(item.content))
      IN  IF s.outcome # "returned"
            THEN [status |-> "raise", exception |-> s.outcome]
          ELSE IF c.outcome # "returned"
            THEN [status |-> "raise", exception |-> c.outcome]
          ELSE
            [status |-> "ok",
             sender |-> do_replacements(s.text),
             content |->
                 strip(str_replace(str_replace(
                     do_replacements(c.text), <<13>>, <<32>>), <<10>>, <<32>>)),
             type |-> item.type,
             reason |-> item.reason,
             suggested_classification |-> item.suggested_classification,
             id |-> item.id]

\* ---- process_item: "none" for a missing field, "raise" with the exception
\* get_text raised (sender first, then content), else the processed record
process_item(item) ==
    IF item.sender = Absent \/ item.content = Absent
    THEN [status |-> "none"]
    ELSE
      LET s == get_text(decode_field(item.sender))
          c == get_text(decode_field(item.content))
      IN  IF s.outcome # "returned"
            THEN [status |-> "raise", exception |-> s.outcome]
          ELSE IF c.outcome # "returned"
            THEN [status |-> "raise", exception |-> c.outcome]
          ELSE
            [status |-> "ok",
             sender |-> do_replacements(s.text),
             content |->
                 strip(str_replace(str_replace(str_replace(
                     do_replacements(c.text),
                     <<13, 10>>, <<32>>), <<13>>, <<32>>), <<10>>, <<32>>)),
             type |-> item.type,
             reason |-> item.reason,
             suggested_classification |-> item.suggested_classification,
             id |-> item.id]

\* process_item on every report a table can hold, worked out once
AllReports == {Report(k, kind) : k \in 1..MaxReports, kind \in ReportKinds}

ProcessedReports == [r \in AllReports |-> process_item(r)]

\* ---- dynamodb.scan as fetch_reports uses it: the items after the start key
\* in scan order, cut at the page size; a LastEvaluatedKey when the page was
\* cut - and possibly when it ended exactly at the last item
ScanRest(key) == SelectSeq(table, LAMBDA r : r.id > key)

ScanPage(key) == SubSeq(ScanRest(key), 1, Min(PageSize, Len(ScanRest(key))))

ScanKeys(key) ==
    LET rest == ScanRest(key)
        page == ScanPage(key)
    IN  IF Len(rest) > PageSize THEN {page[Len(page)].id}
        ELSE IF Len(page) = PageSize THEN {0, page[Len(page)].id}
        ELSE {0}

\* write_to_csv: the file with one more row, flushed
write_to_csv(file, classification, message_type, content) ==
    Append(file, <<classification, message_type, content>>)

\* the table after delete_item(id) went through (ok) or raised
delete_item(id, ok) ==
    IF ok THEN SelectSeq(table, LAMBDA r : r.id # id) ELSE table

\* after an item: the next one, or the next scan
NextItem ==
    /\ items' = Tail(items)
    /\ rpc' = IF Tail(items) = <<>> THEN "fetch" ELSE "items"

\* batch_number += 1; fetch_reports; the break test
Fetch ==
    /\ rpc = "fetch"
    /\ batch_number < MaxBatches
    /\ batch_number' = batch_number + 1
    /\ \E key \in ScanKeys(last_evaluated_key) :
          LET page == ScanPage(last_evaluated_key)
          IN  /\ last_evaluated_key' = key
              /\ items' = page
              /\ rpc' = IF page = <<>> /\ key = 0 THEN "done"
                        ELSE IF page = <<>> THEN "fetch" ELSE "items"
    /\ UNCHANGED <<table, auto_accept, uncaught, csv_file, events, action>>
    /\ UNCHANGED <<decode_vars, other_vars>>

\* process_item raises: nothing in review_reports catches it
ReviewRaise ==
    /\ rpc = "items"
    /\ ProcessedReports[Head(items)].status = "raise"
    /\ rpc' = "crashed"
    /\ uncaught' = ProcessedReports[Head(items)].exception
    /\ UNCHANGED <<table, auto_accept, last_evaluated_key, items,
                   batch_number, csv_file, events, action>>
    /\ UNCHANGED <<decode_vars, other_vars>>

\* process_item returned None: continue
ReviewMissing ==
    /\ rpc = "items"
    /\ ProcessedReports[Head(items)].status = "none"
    /\ NextItem
    /\ UNCHANGED <<table, auto_accept, last_evaluated_key, batch_number,
                   uncaught, csv_file, events, action>>
    /\ UNCHANGED <<decode_vars, other_vars>>

\* the delete request issued before the row is written
WriteAndDelete_DeleteFirst(processed, classification) ==
    \E ok \in BOOLEAN :
        /\ csv_file' = write_to_csv(csv_file, classification, processed.type,
                                    processed.content)
        /\ events' = events \o <<[op |-> "delete", id |-> processed.id],
                                 [op |-> "write", id |-> processed.id]>>
        /\ table' = delete_item(processed.id, ok)

\* write the row, then delete_report (which swallows a failure)
WriteAndDelete(processed, classification) ==
    \E ok \in BOOLEAN :
        /\ csv_file' = write_to_csv(csv_file, classification, processed.type,
                                    processed.content)
        /\ events' = events \o <<[op |-> "write", id |-> processed.id],
                                 [op |-> "delete", id |-> processed.id]>>
        /\ table' = delete_item(processed.id, ok)

ReviewAuto ==
    /\ rpc = "items"
    /\ auto_accept
    /\ LET processed == ProcessedReports[Head(items)]
       IN  /\ processed.status = "ok"
           /\ WriteAndDelete(processed, processed.suggested_classification)
    /\ NextItem
    /\ UNCHANGED <<auto_accept, last_evaluated_key, batch_number, uncaught,
                   action>>
    /\ UNCHANGED <<decode_vars, other_vars>>

\* action "s"
ReviewSkip ==
    /\ rpc = "items"
    /\ ~auto_accept
    /\ ProcessedReports[Head(items)].status = "ok"
    /\ action' = "s"
    /\ NextItem
    /\ UNCHANGED <<table, auto_accept, last_evaluated_key, batch_number,
                   uncaught, csv_file, events>>
    /\ UNCHANGED <<decode_vars, other_vars>>

\* action "d"
ReviewDelete ==
    /\ rpc = "items"
    /\ ~auto_accept
    /\ LET processed == ProcessedReports[Head(items)]
       IN  /\ processed.status = "ok"
           /\ \E ok \in BOOLEAN : table' = delete_item(processed.id, ok)
           /\ events' = Append(events, [op |-> "delete", id |-> processed.id])
    /\ action' = "d"
    /\ NextItem
    /\ UNCHANGED <<auto_accept, last_evaluated_key, batch_number, uncaught,
                   csv_file>>
    /\ UNCHANGED <<decode_vars, other_vars>>

\* actions "a" and "k"
ReviewAcceptKeep ==
    /\ rpc = "items"
    /\ ~auto_accept
    /\ LET processed == ProcessedReports[Head(items)]
       IN  /\ processed.status = "ok"
           /\ \E choice \in {"a", "k"} :
                 /\ action' = choice
                 /\ WriteAndDelete(processed,
                        IF choice = "a"
                        THEN processed.suggested_classification
                        ELSE processed.reason)
    /\ NextItem
    /\ UNCHANGED <<auto_accept, last_evaluated_key, batch_number, uncaught>>
    /\ UNCHANGED <<decode_vars, other_vars>>

\* action "r"
ReviewReclassify ==
    /\ rpc = "items"
    /\ ~auto_accept
    /\ LET processed == ProcessedReports[Head(items)]
       IN  /\ processed.status = "ok"
           /\ \E classification \in ReclassifyChoices :
                 WriteAndDelete(processed, classification)
    /\ action' = "r"
    /\ NextItem
    /\ UNCHANGED <<auto_accept, last_evaluated_key, batch_number, uncaught>>
    /\ UNCHANGED <<decode_vars, other_vars>>

\* no decode call is being stepped
DecodeIdle == Start(NewFrame(<<>>, "idle", "idle"))

\* review_reports starts on any bounded table, with or without --auto-accept
InitReview ==
    /\ DecodeIdle
    /\ table \in Tables
    /\ auto_accept \in BOOLEAN
    /\ last_evaluated_key = 0
    /\ items = <<>>
    /\ batch_number = 0
    /\ rpc = "fetch"
    /\ uncaught = "none"
    /\ csv_file = <<>>
    /\ events = <<>>
    /\ action = "none"
    /\ ItemIdle /\ PairIdle /\ DedupeIdle /\ ImportIdle

NextReview ==
    \/ Fetch
    \/ ReviewRaise
    \/ ReviewMissing
    \/ ReviewAuto
    \/ ReviewSkip
    \/ ReviewDelete
    \/ ReviewAcceptKeep
    \/ ReviewReclassify

SpecReview == InitReview /\ [][NextReview]_vars

\* ======================================================================
\* process_item called on one item
\* ======================================================================
\* the characters stored fields are drawn from: 'H', CR, LF, space
TextBytes == {72, 13, 10, 32}
\* "line1\r\nline2\rline3\n"
LineExample ==
    <<108, 105, 110, 101, 49, 13, 10, 108, 105, 110, 101, 50, 13,
      108, 105, 110, 101, 51, 10>>
\* "H\r\nH"
FieldSenderLines == <<72, 13, 10, 72>>

ContentInputs == SeqsUpTo(TextBytes, MaxText) \cup {LineExample, FieldLines}
SenderInputs == {FieldPlain, FieldSenderLines}

ItemInputs ==
    {Report(1, [sender |-> s, content |-> c]) :
        s \in SenderInputs, c \in ContentInputs}

\* processed = process_item(item)
ProcessItem ==
    /\ returned.status = "idle"
    /\ returned' = process_item(arg_item)
    /\ UNCHANGED <<arg_item, decode_vars, review_vars, calls, dedupe_vars,
                   import_vars>>

InitItem ==
    /\ arg_item \in ItemInputs
    /\ returned = [status |-> "idle"]
    /\ DecodeIdle /\ ReviewIdle /\ PairIdle /\ DedupeIdle /\ ImportIdle

NextItemCall == ProcessItem

SpecItem == InitItem /\ [][NextItemCall]_vars

\* ======================================================================
\* two get_text calls on independent buffers, interleaved step by step
\* ======================================================================
PairBytes == {2, 3, 72}

PairInputs ==
    SeqsUpTo(PairBytes, MaxPairLen)
        \cup Examples \cup {FieldNoEnd, FieldBadUtf8}

\* the locals call k works on: cursor = BytesIO(input_data) and
\* result = bytearray() are created afresh by each call
Locals_SharedResult(cs, k) == [cs[k] EXCEPT !.result = cs[1].result]
Locals(cs, k) == cs[k]

\* call k takes its next step
StepCall(k) ==
    /\ calls[k].pc # "done"
    /\ calls' = [calls EXCEPT ![k] = Step(Locals(calls, k))]
    /\ UNCHANGED <<decode_vars, review_vars, item_vars, dedupe_vars,
                   import_vars>>

StepFirst == StepCall(1)
StepSecond == StepCall(2)

InitPair ==
    /\ \E a \in PairInputs, b \in PairInputs :
          calls = <<get_text_call(a), get_text_call(b)>>
    /\ DecodeIdle /\ ReviewIdle /\ ItemIdle /\ DedupeIdle /\ ImportIdle

NextPair == StepFirst \/ StepSecond

SpecPair == InitPair /\ [][NextPair]_vars

\* ======================================================================
\* deduper.py: find_and_delete_duplicates
\* ======================================================================
\* the raw contents records are drawn from: "H", "I", "HH"
DedupeContents == {<<72>>, <<73>>, <<72, 72>>}

DedupeTables ==
    UNION {{[k \in 1..n |-> [id |-> k, content |-> cs[k]]] :
               cs \in [1..n -> DedupeContents]} : n \in 0..MaxRecords}

\* sha256(content_raw).hexdigest(): SHA-256 is taken as free of collisions,
\* the digest is a number that names the byte string
RECURSIVE sha256(_)
sha256(content_raw) ==
    IF content_raw = <<>> THEN 1
    ELSE sha256(SubSeq(content_raw, 1, Len(content_raw) - 1)) * 257
             + content_raw[Len(content_raw)] + 1

\* content_hash_map[h].append(record_id) on a defaultdict(list)
MapAppend(map, h, record_id) ==
    [x \in DOMAIN map \cup {h} |->
        IF x = h
        THEN (IF h \in DOMAIN map THEN map[h] ELSE <<>>) \o <<record_id>>
        ELSE map[x]]

\* the body of "for item in records": st holds content_hash_map, duplicates
hash_item_KeepLast(st, record) ==
    LET content_hash == sha256(record.content)
    IN  IF content_hash \in DOMAIN st.content_hash_map
        THEN [content_hash_map |->
                  [st.content_hash_map EXCEPT ![content_hash] = <<record.id>>],
              duplicates |->
                  st.duplicates \o st.content_hash_map[content_hash]]
        ELSE [content_hash_map |->
                  MapAppend(st.content_hash_map, content_hash, record.id),
              duplicates |-> st.duplicates]
hash_item(st, record) ==
    LET content_hash == sha256(record.content)
    IN  IF content_hash \in DOMAIN st.content_hash_map
        THEN [content_hash_map |-> st.content_hash_map,
              duplicates |-> Append(st.duplicates, record.id)]
        ELSE [content_hash_map |->
                  MapAppend(st.content_hash_map, content_hash, record.id),
              duplicates |-> st.duplicates]

\* fetch_all_records: one scan, its items appended, the loop left when the
\* response has no LastEvaluatedKey
DedupeScan ==
    /\ dpc = "scan"
    /\ \E key \in ScanKeys(last_evaluated_key) :
          /\ records' = records \o ScanPage(last_evaluated_key)
          /\ last_evaluated_key' = key
          /\ dpc' = IF key # 0 THEN "scan"
                    ELSE IF records' = <<>> THEN "delete" ELSE "hash"
    /\ UNCHANGED <<table, review_locals, d_index, content_hash_map,
                   duplicates, delete_requests, remaining_records>>
    /\ UNCHANGED <<decode_vars, item_vars, calls, import_vars>>

\* for item in records: one record
DedupeHash ==
    /\ dpc = "hash"
    /\ LET st == hash_item([content_hash_map |-> content_hash_map,
                            duplicates |-> duplicates],
                           records[d_index + 1])
       IN  /\ content_hash_map' = st.content_hash_map
           /\ duplicates' = st.duplicates
    /\ d_index' = IF d_index + 1 = Len(records) THEN 0 ELSE d_index + 1
    /\ dpc' = IF d_index + 1 = Len(records) THEN "delete" ELSE "hash"
    /\ UNCHANGED <<table, last_evaluated_key, review_locals, records,
                   delete_requests, remaining_records>>
    /\ UNCHANGED <<decode_vars, item_vars, calls, import_vars>>

\* for record_id in duplicates: delete_record, which swallows a failure
DedupeDelete ==
    /\ dpc = "delete"
    /\ d_index < Len(duplicates)
    /\ \E ok \in BOOLEAN : table' = delete_item(duplicates[d_index + 1], ok)
    /\ delete_requests' = Append(delete_requests, duplicates[d_index + 1])
    /\ d_index' = d_index + 1
    /\ UNCHANGED <<last_evaluated_key, review_locals, records,
                   content_hash_map, duplicates, remaining_records, dpc>>
    /\ UNCHANGED <<decode_vars, item_vars, calls, import_vars>>

\* remaining_records = len(content_hash_map) and the last prints
DedupeReport ==
    /\ dpc = "delete"
    /\ d_index = Len(duplicates)
    /\ remaining_records' = Cardinality(DOMAIN content_hash_map)
    /\ dpc' = "done"
    /\ UNCHANGED <<table, last_evaluated_key, review_locals, records, d_index,
                   content_hash_map, duplicates, delete_requests>>
    /\ UNCHANGED <<decode_vars, item_vars, calls, import_vars>>

InitDedupe ==
    /\ table \in DedupeTables
    /\ last_evaluated_key = 0
    /\ auto_accept = FALSE /\ items = <<>> /\ batch_number = 0
    /\ rpc = "idle" /\ uncaught = "none" /\ csv_file = <<>>
    /\ events = <<>> /\ action = "none"
    /\ records = <<>>
    /\ d_index = 0
    /\ content_hash_map = <<>>
    /\ duplicates = <<>>
    /\ delete_requests = <<>>
    /\ remaining_records = -1
    /\ dpc = "scan"
    /\ DecodeIdle /\ ItemIdle /\ PairIdle /\ ImportIdle

NextDedupe == DedupeScan \/ DedupeHash \/ DedupeDelete \/ DedupeReport

SpecDedupe == InitDedupe /\ [][NextDedupe]_vars

\* ======================================================================
\* importer.py: import_json_to_dynamodb
\* ======================================================================
\* A line of a file is a JSON object; what the importer reads of it is
\* item["Item"] and item["Item"]["id"]["S"]:
\*   "full"    {"Item": {"id": {"S": ...}, ...}}
\*   "no_id"   {"Item": {...}} with no id.S
\*   "no_item" an object with no "Item"
ItemShapes == {"full", "no_id", "no_item"}

\* f.endswith(".json")
endswith_json(file_name) == file_name.suffix = ".json"

\* a directory entry: its name, its lines, and whether it is still there
Files ==
    {[suffix |-> ".json", lines |-> ls, present |-> TRUE] :
        ls \in SeqsUpTo(ItemShapes, MaxItems)}
      \cup {[suffix |-> ".txt", lines |-> <<>>, present |-> TRUE]}

\* os.listdir(directory), in the order the system lists it
Directories == UNION {[1..n -> Files] : n \in 0..MaxFiles}

\* item["Item"] raises KeyError; item['Item']['id']['S'] raises KeyError
has_Item(item) == item # "no_item"
has_id(item) == item = "full"

\* the file of the for loop and the line of the inner loop
file_name == Head(json_files)
item_index == Len(directory[file_name].lines) - Len(import_items) + 1

\* after the inner loop's last item: the test of all_successful
AfterItem(rest) == IF rest = <<>> THEN "close" ELSE "items"

\* json_files = [...]; if not json_files: return
ImportList ==
    /\ ipc = "list"
    /\ json_files' = SelectSeq([k \in 1..Len(directory) |-> k],
                               LAMBDA k : endswith_json(directory[k]))
    /\ ipc' = IF json_files' = <<>> THEN "done" ELSE "open"
    /\ UNCHANGED <<directory, import_items, all_successful, put_log>>
    /\ UNCHANGED <<decode_vars, review_vars, item_vars, calls, dedupe_vars>>

\* for file_name in json_files: the file read, all_successful = True
ImportOpen ==
    /\ ipc = "open"
    /\ import_items' = directory[file_name].lines
    /\ all_successful' = TRUE
    /\ ipc' = AfterItem(import_items')
    /\ UNCHANGED <<directory, json_files, put_log>>
    /\ UNCHANGED <<decode_vars, review_vars, item_vars, calls, dedupe_vars>>

\* for item in items, an item with Item.id.S: put_item succeeds, or raises
\* and the handler clears all_successful
ImportPut ==
    /\ ipc = "items"
    /\ has_id(Head(import_items))
    /\ \E ok \in BOOLEAN :
          /\ put_log' = Append(put_log, [op |-> "put_item", file |-> file_name,
                                         index |-> item_index, ok |-> ok])
          /\ all_successful' = (all_successful /\ ok)
    /\ import_items' = Tail(import_items)
    /\ ipc' = AfterItem(import_items')
    /\ UNCHANGED <<directory, json_files>>
    /\ UNCHANGED <<decode_vars, review_vars, item_vars, calls, dedupe_vars>>

\* for item in items, an item without Item.id.S: item["Item"] raises before
\* put_item is called, or put_item is called and the print after it raises
\* or put_item itself raises; the handler clears all_successful and its own
\* print raises KeyError, which nothing catches
ImportPutKeyError ==
    /\ ipc = "items"
    /\ ~has_id(Head(import_items))
    /\ IF has_Item(Head(import_items))
       THEN \E ok \in BOOLEAN :
               put_log' = Append(put_log,
                                 [op |-> "put_item", file |-> file_name,
                                  index |-> item_index, ok |-> ok])
       ELSE put_log' = put_log
    /\ all_successful' = FALSE
    /\ ipc' = "raised"
    /\ UNCHANGED <<directory, json_files, import_items>>
    /\ UNCHANGED <<decode_vars, review_vars, item_vars, calls, dedupe_vars>>

\* if all_successful: os.remove(file_path), whose failure is printed
ImportClose ==
    /\ ipc = "close"
    /\ IF all_successful
       THEN \E ok \in BOOLEAN :
               /\ put_log' = Append(put_log, [op |-> "remove",
                                              file |-> file_name,
                                              index |-> 0, ok |-> ok])
               /\ directory' = IF ok
                               THEN [directory EXCEPT
                                        ![file_name].present = FALSE]
                               ELSE directory
       ELSE UNCHANGED <<directory, put_log>>
    /\ json_files' = Tail(json_files)
    /\ ipc' = IF json_files' = <<>> THEN "done" ELSE "open"
    /\ UNCHANGED <<import_items, all_successful>>
    /\ UNCHANGED <<decode_vars, review_vars, item_vars, calls, dedupe_vars>>

InitImport ==
    /\ directory \in Directories
    /\ json_files = <<>>
    /\ import_items = <<>>
    /\ all_successful = TRUE
    /\ put_log = <<>>
    /\ ipc = "list"
    /\ DecodeIdle /\ ReviewIdle /\ ItemIdle /\ PairIdle /\ DedupeIdle

NextImport ==
    ImportList \/ ImportOpen \/ ImportPut \/ ImportPutKeyError \/ ImportClose

SpecImport == InitImport /\ [][NextImport]_vars

\* ======================================================================
\* The envelope format as the design describes it, stated on the buffer
\* alone: the properties below compare the decoder's runs against it.
\* ======================================================================
\* bit k of the presence mask p
MaskBit(p, k) == (p % Pow(2, k + 1)) >= Pow(2, k)
\* the presence mask of a marker byte of the large branch
MaskOf(m) == (m + 1) % 16
\* how many bytes follow marker byte m
ExtraBytes(m) ==
    IF m < 208 THEN 0 ELSE Cardinality({k \in 0..3 : MaskBit(MaskOf(m), k)})
\* the value encoded at 1-based position q of buf, all its bytes present: for
\* set bit k the byte is the Rank(k)-th after the marker, at offset 3 - k of
\* the little-endian integer, so bits 0, 1 fill the high limb, bits 2, 3 the low
EncodedValue(buf, q) ==
    LET m == buf[q]
        Rank(k) == Cardinality({j \in 0..k : MaskBit(MaskOf(m), j)})
        ByteFor(k) == IF MaskBit(MaskOf(m), k) THEN buf[q + Rank(k)] ELSE 0
    IN  IF m < 208 THEN PyInt(m - 1)
        ELSE [hi |-> ByteFor(0) * 256 + ByteFor(1),
              lo |-> ByteFor(2) * 256 + ByteFor(3)]

\* Walk the blocks of buf from 1-based position p with the literals lit seen
\* so far.  shape is "ok" when every block is whole, else it names what is
\* wrong with the first block that is not: "truncated" (kind, a length byte,
\* the body or END lies past the end), "format" (the byte after the body is
\* not END) or "negative" (the declared length is below zero).
RECURSIVE Envelope(_, _, _)
Envelope(buf, p, lit) ==
    IF p > Len(buf) THEN [shape |-> "ok", lit |-> lit]
    ELSE IF buf[p] # START THEN Envelope(buf, p + 1, Append(lit, buf[p]))
    ELSE IF p + 2 > Len(buf) THEN [shape |-> "truncated", lit |-> lit]
    ELSE IF p + 2 + ExtraBytes(buf[p + 2]) > Len(buf)
      THEN [shape |-> "truncated", lit |-> lit]
    ELSE
      LET n == EncodedValue(buf, p + 2)
          body == p + 3 + ExtraBytes(buf[p + 2])
      IN  IF n.hi < 0 THEN [shape |-> "negative", lit |-> lit]
          ELSE IF n.hi > 0 \/ body + n.lo > Len(buf)
            THEN [shape |-> "truncated", lit |-> lit]
          ELSE IF buf[body + n.lo] # END THEN [shape |-> "format", lit |-> lit]
          ELSE Envelope(buf, body + n.lo + 1, lit)

Shape(buf) == Envelope(buf, 1, <<>>).shape
Literals(buf) == Envelope(buf, 1, <<>>).lit

\* ---------------------------------------------------------------- C1
\* C1: whenever get_text succeeds, every block of the buffer is whole and the
\* accumulator holds, in order, exactly the bytes outside the blocks (kind,
\* length bytes, body bytes - also a body byte 0x02 - and END are left out).
C1_LiteralsOnly ==
    (pc = "done" /\ outcome = "returned")
        => (Shape(input_data) = "ok" /\ result = Literals(input_data))

\* the documented example decodes to "Hi!"
C1_Witness ==
    /\ pc = "done" /\ outcome = "returned"
    /\ input_data = HiExample
    /\ text = <<72, 105, 33>>

\* ---------------------------------------------------------------- C2
\* C2: a buffer whose first unsound block runs past the end of the buffer
\* (kind byte, a length byte, the body or END missing) makes get_text fail
\* with the truncation error IndexError, never with AssertionError and never
\* with a string.
C2_TruncatedRaises ==
    (pc = "done" /\ Shape(input_data) = "truncated")
        => outcome = "IndexError"

\* a declared length of 2 with one byte left
C2_Witness ==
    /\ pc = "done" /\ outcome = "IndexError"
    /\ input_data = <<72, 2, 0, 3, 72>>

\* ---------------------------------------------------------------- C3
\* C3: a buffer whose first unsound block has kind, length and body inside
\* the buffer and a byte other than END after the body makes get_text fail
\* with AssertionError, never with a string.
C3_MissingEndRaises ==
    (pc = "done" /\ Shape(input_data) = "format")
        => outcome = "AssertionError"

C3_Witness ==
    /\ pc = "done" /\ outcome = "AssertionError"
    /\ input_data = <<2, 0, 2, 72, 72>>

\* ---------------------------------------------------------------- C4
\* C4: for a marker byte m below 0xD0 get_int returns m - 1 and leaves the
\* cursor just past the marker.
C4_SmallBranch ==
    (pc = "done" /\ input_data[1] < 208)
        => /\ outcome = "returned"
           /\ int_value.hi * 65536 + int_value.lo = input_data[1] - 1
           /\ cursor = 1

\* marker 0xCF decodes to 206 and the bytes after it are not consumed
C4_Witness ==
    /\ pc = "done" /\ outcome = "returned"
    /\ input_data[1] = 207 /\ Len(input_data) > 1
    /\ int_value = [hi |-> 0, lo |-> 206]

\* marker 0x00 decodes to -1
C4_WitnessMinusOne ==
    /\ pc = "done" /\ outcome = "returned"
    /\ input_data[1] = 0
    /\ int_value = [hi |-> -1, lo |-> 65535]

\* ---------------------------------------------------------------- C5
\* C5: for a marker byte of 0xD0 or more, a get_int that returns has read
\* one byte per set mask bit in ascending bit order and returns the integer
\* with the byte of bit k at little-endian offset 3 - k and zero elsewhere,
\* a value in 0 .. 2^32 - 1.
C5_LargeBranch ==
    (pc = "done" /\ outcome = "returned" /\ input_data[1] >= 208)
        => /\ int_value = EncodedValue(input_data, 1)
           /\ int_value.hi \in 0..65535
           /\ int_value.lo \in 0..65535

\* marker 0xD2 (mask 3): bit 0 takes 0x01 to offset 3, bit 1 takes 0x80 to
\* offset 2
C5_Witness ==
    /\ pc = "done" /\ outcome = "returned"
    /\ input_data = <<210, 1, 128>>
    /\ int_value = [hi |-> 384, lo |-> 0]

\* ---------------------------------------------------------------- C6
\* C6: a get_int that returns has advanced the cursor by 1 byte for a marker
\* below 0xD0 and by 1 + (set bits of the mask) bytes otherwise, so by 1..5
\* bytes; with mask 0 (as for markers 0xFF and 0xEF) it consumed the marker
\* alone and returns 0.
C6_Consumed ==
    (pc = "done" /\ outcome = "returned")
        => /\ cursor = 1 + ExtraBytes(input_data[1])
           /\ cursor \in 1..5
           /\ (input_data[1] < 208 => cursor = 1)
           /\ (input_data[1] \in {239, 255} => MaskOf(input_data[1]) = 0)
           /\ (input_data[1] >= 208 /\ MaskOf(input_data[1]) = 0
                  => cursor = 1 /\ int_value = [hi |-> 0, lo |-> 0])

\* marker 0xFF followed by bytes that stay unread
C6_Witness ==
    /\ pc = "done" /\ outcome = "returned"
    /\ input_data[1] = 255 /\ Len(input_data) = 3
    /\ cursor = 1 /\ int_value = [hi |-> 0, lo |-> 0]

\* ---------------------------------------------------------------- C7
\* C7: the block length get_text takes from get_int is never negative.
C7_LengthNonNegative == length.hi >= 0

\* ---------------------------------------------------------------- C8
\* C8: on a buffer without a START byte get_text reads no block, appends
\* every byte in order (END included) and returns the UTF-8 decoding of the
\* whole buffer - or fails in that decoding and nowhere else.
NoStart(buf) == \A k \in 1..Len(buf) : buf[k] # START

C8_PassThrough ==
    NoStart(input_data)
        => /\ pc \in {"while", "decode", "done"}
           /\ pc = "done"
                => /\ result = input_data
                   /\ IF utf8_decode(input_data).ok
                      THEN /\ outcome = "returned"
                           /\ text = utf8_decode(input_data).text
                      ELSE outcome = "UnicodeDecodeError"

\* an END byte outside a block comes out as a literal
C8_Witness ==
    /\ pc = "done" /\ outcome = "returned"
    /\ input_data = <<72, 3, 72>>
    /\ text = <<72, 3, 72>>

\* ---------------------------------------------------------------- C9
\* C9: during a get_text call the cursor never moves backwards and never
\* passes the end of the buffer, whatever length a block declares.
C9_CursorMonotone ==
    /\ [](cursor \in 0..Len(input_data))
    /\ [][cursor' >= cursor]_vars

\* a declared length of -1 has taken the cursor to the end of the buffer
C9_Witness ==
    /\ pc = "end" /\ length.hi < 0
    /\ cursor = Len(input_data) /\ Len(input_data) = 5

\* a declared length above what is left has taken the cursor to the end
C9_WitnessLong ==
    /\ pc = "end" /\ length = [hi |-> 0, lo |-> 71]
    /\ cursor = Len(input_data) /\ Len(input_data) = 5

\* ---------------------------------------------------------------- C10
\* C10: a get_text failure on one report never ends review_reports while
\* reports it has not visited remain: no IndexError, AssertionError or
\* UnicodeDecodeError leaves it uncaught with later reports still stored.
C10_ReviewSurvivesDecodeFailure ==
    ~ /\ uncaught \in DecodeFailures
      /\ \E k \in 1..Len(table) : table[k].id > Head(items).id

\* ---------------------------------------------------------------- C11
\* one pass over the text: CR LF becomes one space, a lone CR or LF a space
RECURSIVE Collapse(_)
Collapse(t) ==
    IF t = <<>> THEN <<>>
    ELSE IF Len(t) >= 2 /\ t[1] = 13 /\ t[2] = 10
      THEN <<32>> \o Collapse(SubSeq(t, 3, Len(t)))
    ELSE IF t[1] \in {13, 10} THEN <<32>> \o Collapse(Tail(t))
    ELSE <<t[1]>> \o Collapse(Tail(t))

\* t between its first and its last character that is not whitespace
Trim(t) ==
    LET keep == {k \in 1..Len(t) : t[k] \notin WhiteSpace}
    IN  IF keep = {} THEN <<>>
        ELSE SubSeq(t, CHOOSE k \in keep : \A j \in keep : k <= j,
                       CHOOSE k \in keep : \A j \in keep : k >= j)

\* C11: the content process_item returns is the decoded, substituted text
\* with every CR LF turned into one space, every other CR or LF into a space,
\* and trimmed, so it holds no CR and no LF; the sender is the decoded,
\* substituted text as it is.
C11_ContentCollapsed ==
    returned.status = "ok"
        => /\ returned.content =
                Trim(Collapse(do_replacements(
                    get_text(decode_field(arg_item.content)).text)))
           /\ \A k \in 1..Len(returned.content) :
                 returned.content[k] \notin {13, 10}
           /\ returned.sender =
                do_replacements(get_text(decode_field(arg_item.sender)).text)

\* "line1\r\nline2\rline3\n" has become "line1 line2 line3", and the sender
\* "H\r\nH" has kept its line break
C11_Witness ==
    /\ returned.status = "ok"
    /\ arg_item.content = LineExample
    /\ arg_item.sender = FieldSenderLines
    /\ returned.content =
          <<108, 105, 110, 101, 49, 32, 108, 105, 110, 101, 50, 32,
            108, 105, 110, 101, 51>>
    /\ returned.sender = <<72, 13, 10, 72>>

\* ---------------------------------------------------------------- C12
\* C12: under every interleaving of the steps of two get_text calls, each
\* call ends with the outcome and the text it has when it runs alone, and
\* neither call's buffer changes.
C12_Reentrant ==
    \A k \in 1..2 :
        calls[k].pc = "done"
            => LET alone == get_text(calls[k].input_data)
               IN  /\ calls[k].outcome = alone.outcome
                   /\ calls[k].text = alone.text
                   /\ calls[k].result = alone.result

\* the first call has returned "Hi!" while the second is inside a block
C12_Witness ==
    /\ calls[1].pc = "done" /\ calls[1].input_data = HiExample
    /\ calls[1].text = <<72, 105, 33>>
    /\ calls[2].pc = "skip" /\ calls[2].input_data = BodyStartExample

\* ---------------------------------------------------------------- C13
\* C13: review_reports stops after the page that carries no
\* LastEvaluatedKey, so no report has its row written to the CSV twice in
\* one run.
C13_WrittenAtMostOnce ==
    \A j \in 1..Len(events), k \in 1..Len(events) :
        (j < k /\ events[j].op = "write" /\ events[k].op = "write")
            => events[j].id # events[k].id

\* ---------------------------------------------------------------- C14
\* C14: every step of review_reports that issues a delete request has first
\* written (and flushed) that report's row - in auto-accept mode and for the
\* answers a, k and r - unless the answer was d, which deletes without
\* writing; the answer s writes nothing and deletes nothing.
C14_WriteBeforeDelete ==
    [][/\ (events' # events) =>
            LET new == SubSeq(events', Len(events) + 1, Len(events'))
            IN  /\ SubSeq(events', 1, Len(events)) = events
                /\ IF auto_accept \/ action' \in {"a", "k", "r"}
                   THEN /\ Len(new) = 2
                        /\ new[1].op = "write" /\ new[2].op = "delete"
                        /\ new[1].id = new[2].id
                        /\ Len(csv_file') = Len(csv_file) + 1
                   ELSE /\ action' = "d"
                        /\ Len(new) = 1 /\ new[1].op = "delete"
                        /\ csv_file' = csv_file
       /\ (~auto_accept /\ action' = "s")
            => (events' = events /\ csv_file' = csv_file)
       /\ (csv_file' # csv_file) => (events' # events)
      ]_vars

\* the answer k: the row with the original classification, then the delete
C14_Witness ==
    /\ ~auto_accept /\ action = "k"
    /\ events = <<[op |-> "write", id |-> 1], [op |-> "delete", id |-> 1]>>
    /\ Len(csv_file) = 1 /\ csv_file[1][1] = "RMT_C"

\* ---------------------------------------------------------------- C15
\* record k of the scan repeats the raw content of an earlier record
RepeatsEarlier(rs, k) == \E j \in 1..(k - 1) : rs[j].content = rs[k].content

\* C15: the scan hands the deduper every record of the table in scan order;
\* when it is done, the deletions requested are exactly, in scan order, the
\* records whose content repeats that of an earlier record, so the first
\* record of each content is still stored, and the number reported is the
\* number of distinct contents.
C15_ExactDuplicates ==
    /\ dpc = "hash" => records = table
    /\ dpc = "done" =>
          /\ delete_requests =
                LET ids == [k \in 1..Len(records) |-> records[k].id]
                IN  SelectSeq(ids,
                        LAMBDA x : \E k \in 1..Len(records) :
                            records[k].id = x /\ RepeatsEarlier(records, k))
          /\ \A k \in 1..Len(records) :
                ~RepeatsEarlier(records, k)
                    => \E j \in 1..Len(table) : table[j] = records[k]
          /\ remaining_records =
                Cardinality({records[k].content : k \in 1..Len(records)})

\* contents "H", "I", "H": the third record is deleted, two contents remain
C15_Witness ==
    /\ dpc = "done"
    /\ Len(records) = 3
    /\ records[1].content = <<72>> /\ records[2].content = <<73>>
    /\ records[3].content = <<72>>
    /\ delete_requests = <<3>>
    /\ remaining_records = 2
    /\ Len(table) = 2

\* ---------------------------------------------------------------- C16
\* put_item was called for line k of file f, and with what result
Put(f, k, ok) ==
    \E n \in 1..Len(put_log) :
        put_log[n] = [op |-> "put_item", file |-> f, index |-> k, ok |-> ok]
Attempted(f) ==
    \A k \in 1..Len(directory[f].lines) : Put(f, k, TRUE) \/ Put(f, k, FALSE)
PutFailed(f) == \E k \in 1..Len(directory[f].lines) : Put(f, k, FALSE)

\* C16: a JSON file is removed only if put_item succeeded for every item of
\* it; once the import has ended, a file with a failed put is still in
\* place, put_item has been tried for each of its items, and for each item
\* of every JSON file listed after it.
C16_RemoveOnlyIfAllPut ==
    /\ \A f \in 1..Len(directory) :
          ~directory[f].present =>
              /\ endswith_json(directory[f])
              /\ \A k \in 1..Len(directory[f].lines) :
                    Put(f, k, TRUE) /\ ~Put(f, k, FALSE)
    /\ ipc \in {"done", "raised"} =>
          \A f \in 1..Len(directory) :
              PutFailed(f) =>
                  /\ directory[f].present
                  /\ Attempted(f)
                  /\ \A g \in (f + 1)..Len(directory) :
                        endswith_json(directory[g]) => Attempted(g)
====
